---- MODULE Spec2Model ----
(***************************************************************************)
(* A model of referral_app/backend/app/faxage_service.py: the credential   *)
(* lookup get_faxage_credentials and the three coroutines                  *)
(* list_received_faxes, get_fax_pdf and delete_fax.                        *)
(*                                                                         *)
(* Text is a sequence of one-character strings, so that str.strip and      *)
(* str.split are computed character by character as Python computes them. *)
(* The alphabet is ASCII, on which response.text and response.content hold *)
(* the same characters.                                                    *)
(***************************************************************************)
EXTENDS Integers, Sequences, FiniteSets, TLC

VARIABLES
    pc,          \* pc[i]: where coroutine i stands: idle, awaiting, closing, done
    op,          \* op[i]: the "operation" form field of invocation i
    client,      \* client[i]: the AsyncClient invocation i holds (0: none yet)
    openClients, \* the AsyncClient objects that are open
    posts,       \* posts[i]: how many times invocation i has called client.post
    request,     \* request[i]: the request of invocation i that is in flight
    response,    \* response[i]: the local variable `response`
    exc,         \* exc[i]: the exception in flight in invocation i
    ret,         \* ret[i]: what invocation i gave its caller
    log,         \* the records the module logger has been given
    environ,     \* os.environ
    store,       \* the secret store: what access_secret_version answers per secret
    smClients,   \* how many SecretManagerServiceClient objects were constructed
    secretCalls, \* the resource names passed to access_secret_version, in order
    envReads,    \* the names os.getenv was called with
    credPc,      \* get_faxage_credentials: "ready" or "done"
    credRet      \* what get_faxage_credentials gave its caller

vars == <<pc, op, client, openClients, posts, request, response, exc, ret, log, environ, store, smClients, secretCalls, envReads, credPc,
          credRet>>

httpVars == <<pc, op, client, openClients, posts, request, response, exc, ret,
              log>>

credVars == <<environ, store, smClients, secretCalls, envReads, credPc, credRet>>

----------------------------------------------------------------------------
(* Bounds of the model.                                                    *)

\* The most lines a listfax body of the single-invocation model has.
MaxLines == 3

\* The number of concurrent invocations of the concurrent model.
NumProcs == 2

----------------------------------------------------------------------------
(* Text: str.strip, str.split, zip, as CPython computes them.              *)

TAB == "\t"
NL == "\n"
CR == "\r"
SP == " "
FF == "\f"

\* A strip() that removes blanks only, as strip(" ") would.
StripCharsBlankOnly == {SP}

\* The characters str.strip() removes, within the model's alphabet.
Whitespace == {SP, TAB, NL, CR, FF}

RECURSIVE LStrip(_)
LStrip(s) ==
    IF s = <<>> THEN <<>>
    ELSE IF Head(s) \in Whitespace THEN LStrip(Tail(s)) ELSE s

RECURSIVE RStrip(_)
RStrip(s) ==
    IF s = <<>> THEN <<>>
    ELSE IF s[Len(s)] \in Whitespace THEN RStrip(SubSeq(s, 1, Len(s) - 1)) ELSE s

\* str.strip()
Strip(s) == RStrip(LStrip(s))

\* str.split(sep) for a one-character sep: the pieces between the separators;
\* n separators give n + 1 pieces, and the empty text gives one empty piece.
RECURSIVE SplitFrom(_, _, _, _)
SplitFrom(s, sep, cur, acc) ==
    IF s = <<>> THEN Append(acc, cur)
    ELSE IF Head(s) = sep THEN SplitFrom(Tail(s), sep, <<>>, Append(acc, cur))
    ELSE SplitFrom(Tail(s), sep, Append(cur, Head(s)), acc)

Split(s, sep) == SplitFrom(s, sep, <<>>, <<>>)

\* fields = ["recvid", ..., "tsid"]
fields == <<"recvid", "revdate", "starttime", "cid", "dnis", "filename",
            "pagecount", "tsid">>

Min(a, b) == IF a < b THEN a ELSE b

\* dict(zip(keys, parts, strict=False)): zip stops at the shorter of the two, and
\* the keys of `fields` are distinct, so each key maps to the part at its index.
ZipDict(keys, parts) ==
    LET n == Min(Len(keys), Len(parts))
    IN  [k \in {keys[j] : j \in 1..n} |->
            parts[CHOOSE j \in 1..n : keys[j] = k]]

----------------------------------------------------------------------------
(* list_received_faxes: the parsing of the response text.                  *)

\* A loop body that says nothing about a short line.
HandleLineSilent(rawLine, acc) ==
    LET line == Strip(rawLine)
        parts == Split(line, TAB)
    IN  IF line = <<>> THEN acc
        ELSE IF Len(parts) >= Len(fields)
             THEN [acc EXCEPT !.results = Append(@, ZipDict(fields, parts))]
             ELSE acc

\* One turn of `for line in body.split("\n")`: acc holds `results` and the
\* warnings given to the logger so far.
HandleLine(rawLine, acc) ==
    LET line == Strip(rawLine)
        parts == Split(line, TAB)
    IN  IF line = <<>> THEN acc
        ELSE IF Len(parts) >= Len(fields)
             THEN [acc EXCEPT !.results = Append(@, ZipDict(fields, parts))]
             ELSE [acc EXCEPT !.warnings = Append(@, line)]

RECURSIVE ParseLines(_, _)
ParseLines(lines, acc) ==
    IF lines = <<>> THEN acc
    ELSE ParseLines(Tail(lines), HandleLine(Head(lines), acc))

\* From `body = response.text.strip()` to `return results`.
ParseListfax(text) ==
    LET body == Strip(text)
    IN  IF body = <<>> THEN [results |-> <<>>, warnings |-> <<>>]
        ELSE ParseLines(Split(body, NL), [results |-> <<>>, warnings |-> <<>>])

----------------------------------------------------------------------------
(* The HTTP exchange of the three coroutines.                              *)

Procs == 1..NumProcs

FAXAGE_URL == <<"https://www.faxage.com/httpsfax.php">>

Operations == {"listfax", "getfax", "delfax"}

\* The timeout= argument of client.post, in seconds.
Timeout(o) == IF o = "getfax" THEN 60 ELSE 30

\* The `data` dict and the call client.post(FAXAGE_URL, data=data, timeout=...).
Request(c, o, id) ==
    [client |-> c, url |-> FAXAGE_URL, operation |-> o, faxid |-> id,
     timeout |-> Timeout(o)]

NoRequest ==
    [client |-> 0, url |-> <<>>, operation |-> "none", faxid |-> <<>>,
     timeout |-> 0]

NoResponse == [status |-> 0, content |-> <<>>]

\* A raise_for_status that lets every status below 500 pass.
IsSuccessBelow500(status) == status < 500

\* httpx.Response.is_success: the 2xx statuses.
IsSuccess(status) == status >= 200 /\ status <= 299

\* response.raise_for_status(): HTTPStatusError unless the status is a success.
RaiseForStatus(resp) ==
    IF IsSuccess(resp.status) THEN "none" ELSE "HTTPStatusError"

\* What client.post can raise instead of returning a response: a timeout, a
\* transport error, and the cancellation of the awaiting task.
PostExceptions == {"TimeoutException", "ConnectError", "CancelledError"}

\* A block that closes its client only when it is left without an exception, as
\* `client = AsyncClient(); ...; await client.aclose()` would.
ExitClosesOnSuccessOnly(open, c, e) == IF e = "none" THEN open \ {c} ELSE open

\* Leaving `async with httpx.AsyncClient() as client`: __aexit__ closes the
\* client whether or not an exception e is in flight.
AsyncWithExit(open, c, e) == open \ {c}

\* A `response` kept in one module-level variable: every invocation reads what
\* the latest post to return has stored there.
ResponseOfShared(i) ==
    LET got == {j \in Procs : response[j] # NoResponse}
    IN  IF got = {} THEN response[i]
        ELSE response[CHOOSE j \in got : \A k \in got : k <= j]

\* The local variable `response` of invocation i.
ResponseOf(i) == response[i]

\* response.text and response.content: on ASCII, the body's characters.
ResponseText(resp) == resp.content

NoReturn == [kind |-> "none", records |-> <<>>, data |-> <<>>, error |-> "none"]
Raised(e) == [kind |-> "raise", records |-> <<>>, data |-> <<>>, error |-> e]
Records(rs) == [kind |-> "records", records |-> rs, data |-> <<>>, error |-> "none"]
Bytes(d) == [kind |-> "bytes", records |-> <<>>, data |-> d, error |-> "none"]
Text(d) == [kind |-> "text", records |-> <<>>, data |-> d, error |-> "none"]

\* logger.warning(...) for each line the parse rejected; `by` tags the record
\* with the invocation that logged it.
Warnings(i, lines) == [k \in 1..Len(lines) |-> [by |-> i, line |-> lines[k]]]

\* httpx.AsyncClient(): a new object, named by the least number that names no
\* client still open or still held by an invocation.
NewClient ==
    LET used == openClients \cup {client[j] : j \in Procs}
    IN  CHOOSE c \in 1..(Cardinality(used) + 1) :
            c \notin used /\ \A d \in 1..(c - 1) : d \in used

\* The coroutine is called with recvid id: it builds `data`, constructs and
\* enters its AsyncClient, calls client.post and suspends on it.
Call(i, o, id) ==
    /\ pc[i] = "idle"
    /\ op' = [op EXCEPT ![i] = o]
    /\ client' = [client EXCEPT ![i] = NewClient]
    /\ openClients' = openClients \cup {NewClient}
    /\ posts' = [posts EXCEPT ![i] = @ + 1]
    /\ request' = [request EXCEPT ![i] = Request(NewClient, o, id)]
    /\ pc' = [pc EXCEPT ![i] = "awaiting"]
    /\ UNCHANGED <<response, exc, ret, log>>
    /\ UNCHANGED credVars

\* client.post returns one of `responses`; raise_for_status runs; the block is
\* left and the coroutine suspends in __aexit__.
PostReturns(i, responses) ==
    /\ pc[i] = "awaiting"
    /\ \E resp \in responses :
        /\ response' = [response EXCEPT ![i] = resp]
        /\ exc' = [exc EXCEPT ![i] = RaiseForStatus(resp)]
    /\ request' = [request EXCEPT ![i] = NoRequest]
    /\ pc' = [pc EXCEPT ![i] = "closing"]
    /\ UNCHANGED <<op, client, openClients, posts, ret, log>>
    /\ UNCHANGED credVars

\* client.post raises e (or the task is cancelled while it awaits); the block
\* is left with e in flight and the coroutine suspends in __aexit__.
PostRaises(i, e) ==
    /\ pc[i] = "awaiting"
    /\ exc' = [exc EXCEPT ![i] = e]
    /\ request' = [request EXCEPT ![i] = NoRequest]
    /\ pc' = [pc EXCEPT ![i] = "closing"]
    /\ UNCHANGED <<op, client, openClients, posts, response, ret, log>>
    /\ UNCHANGED credVars

\* __aexit__ is over: the exception in flight reaches the caller, or the code
\* after the block runs to its return; the frame and its `client` are gone.
ClientClosed(i) ==
    /\ pc[i] = "closing"
    /\ openClients' = AsyncWithExit(openClients, client[i], exc[i])
    /\ client' = [client EXCEPT ![i] = 0]
    /\ pc' = [pc EXCEPT ![i] = "done"]
    /\ IF exc[i] # "none"
       THEN /\ ret' = [ret EXCEPT ![i] = Raised(exc[i])]
            /\ log' = log
       ELSE IF op[i] = "listfax"
       THEN LET parsed == ParseListfax(ResponseText(ResponseOf(i)))
            IN  /\ ret' = [ret EXCEPT ![i] = Records(parsed.results)]
                /\ log' = log \o Warnings(i, parsed.warnings)
       ELSE IF op[i] = "getfax"
       THEN /\ ret' = [ret EXCEPT ![i] = Bytes(ResponseOf(i).content)]
            /\ log' = log
       ELSE /\ ret' = [ret EXCEPT ![i] = Text(ResponseText(ResponseOf(i)))]
            /\ log' = log
    /\ UNCHANGED <<op, posts, request, response, exc>>
    /\ UNCHANGED credVars

InitHttp ==
    /\ pc = [i \in Procs |-> "idle"]
    /\ op = [i \in Procs |-> "none"]
    /\ client = [i \in Procs |-> 0]
    /\ openClients = {}
    /\ posts = [i \in Procs |-> 0]
    /\ request = [i \in Procs |-> NoRequest]
    /\ response = [i \in Procs |-> NoResponse]
    /\ exc = [i \in Procs |-> "none"]
    /\ ret = [i \in Procs |-> NoReturn]
    /\ log = <<>>

----------------------------------------------------------------------------
(* The credential lookup.                                                  *)

\* The values ENVIRONMENT that select the secret store.
SecretEnvironments == {"staging", "production"}

\* A test that sends everything but "local" to the secret store.
UsesSecretStoreUnlessLocal(env) == env # "local"

\* `if env in ["staging", "production"]`
UsesSecretStore(env) == env \in SecretEnvironments

\* os.getenv(name, default): the variable's value, or default when it is unset.
Getenv(name, default) ==
    IF name \in DOMAIN environ THEN environ[name] ELSE default

\* The three secrets asked for, password before company.
SecretNamesSwapped == <<"faxage-username", "faxage-password", "faxage-company">>

\* The argument of each _get_secret call of the returned tuple, left to right.
SecretNames == <<"faxage-username", "faxage-company", "faxage-password">>

\* f"projects/{project_id}/secrets/{name}/versions/latest"; os.getenv gives
\* None for an unset GOOGLE_CLOUD_PROJECT, which formats as "None".
SecretResourceName(name) ==
    <<"projects/", Getenv("GOOGLE_CLOUD_PROJECT", "None"), "/secrets/", name,
      "/versions/latest">>

\* What the store, or the UTF-8 decoding of its payload, can raise.
StoreErrors == {"NotFound", "PermissionDenied", "UnicodeDecodeError"}

\* _get_secret(name): the decoded payload, or the error raised.
GetSecret(name) ==
    IF store[name] \in StoreErrors
    THEN [error |-> store[name], value |-> ""]
    ELSE [error |-> "none", value |-> store[name]]

\* How many of the names are requested: Python evaluates the tuple's elements
\* left to right and stops at the first _get_secret that raises.
Requested(names) ==
    LET failing == {k \in 1..Len(names) : GetSecret(names[k]).error # "none"}
    IN  IF failing = {} THEN Len(names)
        ELSE CHOOSE k \in failing : \A j \in failing : k <= j

NoCredentials == [kind |-> "none", value |-> <<>>, error |-> "none"]
CredRaised(e) == [kind |-> "raise", value |-> <<>>, error |-> e]
Credentials(t) == [kind |-> "value", value |-> t, error |-> "none"]

\* get_faxage_credentials(), on the secret-store branch; ctor is what
\* constructing SecretManagerServiceClient raises ("none": nothing).
GetFromSecretStore(ctor) ==
    /\ credPc = "ready"
    /\ UsesSecretStore(Getenv("ENVIRONMENT", "local"))
    /\ credPc' = "done"
    /\ smClients' = smClients + 1
    /\ IF ctor # "none"
       THEN /\ envReads' = envReads \cup {"ENVIRONMENT"}
            /\ secretCalls' = secretCalls
            /\ credRet' = CredRaised(ctor)
       ELSE LET n == Requested(SecretNames)
                last == GetSecret(SecretNames[n])
            IN  /\ envReads' = envReads \cup {"ENVIRONMENT", "GOOGLE_CLOUD_PROJECT"}
                /\ secretCalls' = secretCalls \o
                        [k \in 1..n |-> SecretResourceName(SecretNames[k])]
                /\ credRet' =
                        IF last.error # "none" THEN CredRaised(last.error)
                        ELSE Credentials([k \in 1..Len(SecretNames) |->
                                            GetSecret(SecretNames[k]).value])
    /\ UNCHANGED <<environ, store>>
    /\ UNCHANGED httpVars

\* get_faxage_credentials(), on the environment-variable branch.
GetFromEnvironment ==
    /\ credPc = "ready"
    /\ ~UsesSecretStore(Getenv("ENVIRONMENT", "local"))
    /\ credPc' = "done"
    /\ envReads' = envReads \cup {"ENVIRONMENT", "FAXAGE_USERNAME",
                                  "FAXAGE_COMPANY", "FAXAGE_PASSWORD"}
    /\ credRet' = Credentials(<<Getenv("FAXAGE_USERNAME", ""),
                                Getenv("FAXAGE_COMPANY", ""),
                                Getenv("FAXAGE_PASSWORD", "")>>)
    /\ UNCHANGED <<environ, store, smClients, secretCalls>>
    /\ UNCHANGED httpVars

----------------------------------------------------------------------------
(* The inputs.                                                             *)

Absent == "<unset>"

\* os.environ with each variable set to the given value, or unset.
MkEnviron(e, u, c, p, g) ==
    LET all == [n \in {"ENVIRONMENT", "FAXAGE_USERNAME", "FAXAGE_COMPANY",
                       "FAXAGE_PASSWORD", "GOOGLE_CLOUD_PROJECT"} |->
                    CASE n = "ENVIRONMENT" -> e
                      [] n = "FAXAGE_USERNAME" -> u
                      [] n = "FAXAGE_COMPANY" -> c
                      [] n = "FAXAGE_PASSWORD" -> p
                      [] OTHER -> g]
    IN  [n \in {m \in DOMAIN all : all[m] # Absent} |-> all[n]]

EnvironmentValues ==
    {Absent, "", "local", "dev", "staging", "production", "Production"}

SecretAnswers == {"s3cret"} \cup StoreErrors

CtorOutcomes == {"none", "DefaultCredentialsError"}

DefaultEnviron == MkEnviron("local", Absent, Absent, Absent, Absent)

InitCredIdle ==
    /\ environ = DefaultEnviron
    /\ store = [n \in {SecretNames[k] : k \in 1..Len(SecretNames)} |-> "s3cret"]
    /\ smClients = 0
    /\ secretCalls = <<>>
    /\ envReads = {}
    /\ credPc = "ready"
    /\ credRet = NoCredentials

InitCred ==
    /\ \E e \in EnvironmentValues, u \in {Absent, "", "user"},
          c \in {Absent, "", "acme"}, p \in {Absent, "", "pw"},
          g \in {Absent, "proj"} :
            environ = MkEnviron(e, u, c, p, g)
    /\ store \in [{"faxage-username", "faxage-company", "faxage-password"} ->
                    SecretAnswers]
    /\ smClients = 0
    /\ secretCalls = <<>>
    /\ envReads = {}
    /\ credPc = "ready"
    /\ credRet = NoCredentials

\* The characters of the k-th field of a generated line.
FieldChar == <<"1", "2", "3", "4", "5", "6", "7", "8", "9">>

\* The lines the listing bodies are made of: n tab-separated fields, the k-th
\* holding the character FieldChar[k], or nothing when k is in `empty`, and
\* then `tail`.
LineShapes ==
    { [n |-> 8, empty |-> {}, tail |-> <<>>],
      [n |-> 8, empty |-> {}, tail |-> <<CR>>],
      [n |-> 8, empty |-> {4}, tail |-> <<>>],
      [n |-> 8, empty |-> {1}, tail |-> <<>>],
      [n |-> 8, empty |-> {8}, tail |-> <<>>],
      [n |-> 9, empty |-> {}, tail |-> <<>>],
      [n |-> 9, empty |-> {1}, tail |-> <<>>],
      [n |-> 9, empty |-> {8, 9}, tail |-> <<>>],
      [n |-> 7, empty |-> {}, tail |-> <<>>],
      [n |-> 3, empty |-> {}, tail |-> <<>>],
      [n |-> 1, empty |-> {1}, tail |-> <<>>],
      [n |-> 1, empty |-> {1}, tail |-> <<SP>>],
      [n |-> 2, empty |-> {1, 2}, tail |-> <<>>] }

RECURSIVE Join(_, _)
Join(pieces, sep) ==
    IF pieces = <<>> THEN <<>>
    ELSE IF Len(pieces) = 1 THEN pieces[1]
    ELSE pieces[1] \o <<sep>> \o Join(Tail(pieces), sep)

MkLine(shape) ==
    Join([k \in 1..shape.n |->
            IF k \in shape.empty THEN <<>> ELSE <<FieldChar[k]>>], TAB)
    \o shape.tail

Lines == {MkLine(sh) : sh \in LineShapes}

\* The bodies of the single-invocation model: up to MaxLines lines, joined by
\* newlines (a body ending in an empty line ends in a newline).
RECURSIVE LineSeqs(_)
LineSeqs(n) ==
    IF n = 0 THEN {<<>>}
    ELSE LET shorter == LineSeqs(n - 1)
         IN  shorter \cup {Append(ls, l) : ls \in {x \in shorter : Len(x) = n - 1},
                                           l \in Lines}

ListBodies == {Join(ls, NL) : ls \in LineSeqs(MaxLines)}

ListStatuses == {200, 503}

ListResponses == [status : ListStatuses, content : ListBodies]

FullBody == MkLine([n |-> 8, empty |-> {}, tail |-> <<>>]) \o <<NL>>

MixedBody ==
    MkLine([n |-> 3, empty |-> {}, tail |-> <<>>]) \o <<NL>>
        \o MkLine([n |-> 9, empty |-> {4}, tail |-> <<CR, NL>>])

\* The responses of the concurrent model.
ConcResponses ==
    { [status |-> 200, content |-> FullBody],
      [status |-> 200, content |-> MixedBody],
      [status |-> 404, content |-> MixedBody] }

RecvIds == {<<"1", "0", "0", "1">>, <<"1", "0", "0", "2">>}

----------------------------------------------------------------------------
(* The specifications.                                                     *)

\* One invocation of list_received_faxes, over the listing bodies.
InitList == InitHttp /\ InitCredIdle

NextList ==
    \/ Call(1, "listfax", <<>>)
    \/ PostReturns(1, ListResponses)
    \/ \E e \in PostExceptions : PostRaises(1, e)
    \/ ClientClosed(1)

SpecList == InitList /\ [][NextList]_vars

\* Concurrent invocations of the three coroutines.
InitConc == InitHttp /\ InitCredIdle

NextConc ==
    \E i \in Procs :
        \/ Call(i, "listfax", <<>>)
        \/ \E id \in RecvIds : Call(i, "getfax", id)
        \/ \E id \in RecvIds : Call(i, "delfax", id)
        \/ PostReturns(i, ConcResponses)
        \/ \E e \in PostExceptions : PostRaises(i, e)
        \/ ClientClosed(i)

SpecConc == InitConc /\ [][NextConc]_vars

\* One call of get_faxage_credentials, over the environments and the stores.
InitCreds == InitHttp /\ InitCred

NextCreds ==
    \/ \E ctor \in CtorOutcomes : GetFromSecretStore(ctor)
    \/ GetFromEnvironment

SpecCreds == InitCreds /\ [][NextCreds]_vars

Spec == SpecConc

----------------------------------------------------------------------------
(* The claims about the three coroutines, under SpecConc.                  *)

Succeeded(i) ==
    /\ pc[i] = "done"
    /\ exc[i] \notin PostExceptions
    /\ response[i].status \in 200..299

WarningsBy(i) == SelectSeq(log, LAMBDA w : w.by = i)

\* C5: an invocation whose response has a status outside 200..299 ends by
\* raising HTTPStatusError: it returns no records, bytes or text, and it has
\* logged no warning, whatever the body holds.
C5_NonSuccessRaises ==
    \A i \in Procs :
        (/\ pc[i] = "done"
         /\ response[i] # NoResponse
         /\ response[i].status \notin 200..299)
        => /\ ret[i] = Raised("HTTPStatusError")
           /\ WarningsBy(i) = <<>>

\* A listing that answered 404 with a body holding a short line has ended.
C5_Witness ==
    \E i \in Procs :
        /\ pc[i] = "done"
        /\ op[i] = "listfax"
        /\ response[i].status = 404
        /\ ParseListfax(response[i].content).warnings # <<>>
        /\ ret[i].kind = "raise"

Live(i) == pc[i] \in {"awaiting", "closing"}

\* C6: every invocation calls client.post exactly once, on a client no other
\* invocation holds, which is open while the invocation is suspended; and every
\* open client belongs to an invocation that has not ended, so an invocation
\* that ended, on any path, has released its client.
C6_OneClientOnePostReleased ==
    /\ \A i \in Procs :
        /\ posts[i] <= 1
        /\ pc[i] = "idle" => posts[i] = 0 /\ client[i] = 0
        /\ Live(i) => /\ posts[i] = 1
                      /\ client[i] \in openClients
                      /\ \A j \in Procs \ {i} : client[j] # client[i]
        /\ pc[i] = "awaiting" => request[i].client = client[i]
        /\ pc[i] = "done" => posts[i] = 1
    /\ openClients \subseteq {client[i] : i \in {j \in Procs : Live(j)}}

\* Every invocation has ended, one cancelled and one on an HTTP status error,
\* and no client is open.
C6_Witness ==
    /\ \A i \in Procs : pc[i] = "done"
    /\ \E i \in Procs : ret[i] = Raised("CancelledError")
    /\ \E i \in Procs : ret[i] = Raised("HTTPStatusError")
    /\ openClients = {}

\* The outcome of an invocation of operation o that runs alone and whose post
\* raises e, or returns resp when e is "none".
AloneOutcome(o, resp, e) ==
    IF e \in PostExceptions THEN Raised(e)
    ELSE IF resp.status \notin 200..299 THEN Raised("HTTPStatusError")
    ELSE IF o = "listfax" THEN Records(ParseListfax(resp.content).results)
    ELSE IF o = "getfax" THEN Bytes(resp.content)
    ELSE Text(resp.content)

\* C9: in every interleaving, an invocation that has ended gave its caller what
\* its own operation and its own response (or its own post's exception)
\* determine when it runs alone.
C9_OutcomeIsOwn ==
    \A i \in Procs :
        pc[i] = "done" => ret[i] = AloneOutcome(op[i], response[i], exc[i])

\* Two listings that received different bodies have both ended.
C9_Witness ==
    \E i, j \in Procs :
        /\ i # j
        /\ Succeeded(i) /\ Succeeded(j)
        /\ op[i] = "listfax" /\ op[j] = "listfax"
        /\ response[i].content # response[j].content
        /\ ret[i].records # ret[j].records

----------------------------------------------------------------------------
(* The claims about the parsing of a listing, under SpecList.  They speak  *)
(* of the lines and fields of the body as the provider sent it.            *)

\* The blank characters the claims name.
BlankChars == {SP, TAB, NL, CR}

Listed == Succeeded(1) /\ op[1] = "listfax"

SentBody == response[1].content

IsBlank(t) == \A k \in 1..Len(t) : t[k] \in BlankChars

\* The non-blank lines of the body, in the order they were sent.
SentLines(body) == SelectSeq(Split(body, NL), LAMBDA l : ~IsBlank(l))

SentFields(line) == Split(line, TAB)

\* The record the claims give a line: the named key maps to the field at its
\* position.
RecordOfLine(line) ==
    [ recvid    |-> SentFields(line)[1],
      revdate   |-> SentFields(line)[2],
      starttime |-> SentFields(line)[3],
      cid       |-> SentFields(line)[4],
      dnis      |-> SentFields(line)[5],
      filename  |-> SentFields(line)[6],
      pagecount |-> SentFields(line)[7],
      tsid      |-> SentFields(line)[8] ]

\* A line of exactly 8 fields, each empty or free of blank characters.
WellFormedLine(line) ==
    /\ Len(SentFields(line)) = 8
    /\ \A k \in 1..Len(line) : line[k] \notin (BlankChars \ {TAB})

\* C1: for a body whose non-blank lines all have 8 fields, any of them empty,
\* the result holds one record per non-blank line, in the order of the lines,
\* each mapping the 8 names to the line's 8 fields.
C1_OneRecordPerLine ==
    (Listed /\ \A k \in 1..Len(SentLines(SentBody)) :
                    WellFormedLine(SentLines(SentBody)[k]))
    => ret[1].records =
            [k \in 1..Len(SentLines(SentBody)) |->
                RecordOfLine(SentLines(SentBody)[k])]

CountLines(body, P(_)) == Len(SelectSeq(SentLines(body), P))

IsShort(line) == Len(SentFields(line)) < 8

\* C2: when the body holds a line of fewer than 8 fields, each such line gives
\* no record and one warning, and every line of 8 or more fields still gives
\* its record.
C2_ShortLineDroppedOthersKept ==
    (Listed /\ CountLines(SentBody, IsShort) > 0)
    => /\ Len(log) = CountLines(SentBody, IsShort)
       /\ Len(ret[1].records) = CountLines(SentBody, LAMBDA l : ~IsShort(l))

IsLong(line) == Len(SentFields(line)) > 8

\* C3: when every non-blank line of the body has more than 8 fields, each
\* gives one record holding its first 8 fields in order, and nothing is logged.
C3_LongLineTruncated ==
    (/\ Listed
     /\ SentLines(SentBody) # <<>>
     /\ \A k \in 1..Len(SentLines(SentBody)) : IsLong(SentLines(SentBody)[k]))
    => /\ ret[1].records =
            [k \in 1..Len(SentLines(SentBody)) |->
                RecordOfLine(SentLines(SentBody)[k])]
       /\ log = <<>>

\* C4: a successful response whose body is empty or holds only spaces, tabs,
\* newlines and carriage returns gives the empty sequence, and nothing is logged.
C4_BlankBodyGivesNothing ==
    (Listed /\ IsBlank(SentBody)) => ret[1] = Records(<<>>) /\ log = <<>>

\* A listing whose body was a tab, a newline and a blank has returned.
C4_Witness ==
    /\ Listed
    /\ IsBlank(SentBody)
    /\ {TAB, NL, SP} \subseteq {SentBody[k] : k \in 1..Len(SentBody)}
    /\ ret[1].kind = "records"

\* The lines of the stripped body that are not empty once stripped.
CountedLines(body) ==
    SelectSeq(Split(Strip(body), NL), LAMBDA l : Strip(l) # <<>>)

\* C10: the records returned and the warnings logged together number the lines
\* of the stripped body that are non-empty after their own stripping, and every
\* record has exactly the 8 keys.
C10_EveryLineAccountedOnce ==
    Listed
    => /\ Len(ret[1].records) + Len(log) = Len(CountedLines(SentBody))
       /\ \A k \in 1..Len(ret[1].records) :
            DOMAIN ret[1].records[k] =
                {"recvid", "revdate", "starttime", "cid", "dnis", "filename",
                 "pagecount", "tsid"}

\* A listing of three lines, one blank, one short and one long, has returned
\* one record and logged one warning.
C10_Witness ==
    /\ Listed
    /\ Len(Split(SentBody, NL)) = 3
    /\ Len(CountedLines(SentBody)) = 2
    /\ Len(ret[1].records) = 1
    /\ Len(log) = 1
    /\ \E k \in 1..Len(SentLines(SentBody)) : IsLong(SentLines(SentBody)[k])

----------------------------------------------------------------------------
(* The claims about get_faxage_credentials, under SpecCreds.               *)

FaxageVariables == {"FAXAGE_USERNAME", "FAXAGE_COMPANY", "FAXAGE_PASSWORD"}

\* ENVIRONMENT is set, to exactly staging or production.
SecretStoreSelected ==
    /\ "ENVIRONMENT" \in DOMAIN environ
    /\ environ["ENVIRONMENT"] \in {"staging", "production"}

ValueOrEmpty(name) == IF name \in DOMAIN environ THEN environ[name] ELSE ""

\* C7: ENVIRONMENT alone chooses the source: staging and production go to the
\* secret store and read no FAXAGE_* variable; any other value, and no value,
\* makes no secret-store call and returns the three FAXAGE_* variables, the
\* empty string standing for an unset one, without raising.
C7_SourceChosenByEnvironment ==
    credPc = "done"
    => IF SecretStoreSelected
       THEN smClients = 1 /\ envReads \cap FaxageVariables = {}
       ELSE /\ smClients = 0
            /\ secretCalls = <<>>
            /\ credRet = Credentials(<<ValueOrEmpty("FAXAGE_USERNAME"),
                                       ValueOrEmpty("FAXAGE_COMPANY"),
                                       ValueOrEmpty("FAXAGE_PASSWORD")>>)

\* The call has returned with ENVIRONMENT set to Production, the user name
\* unset and the password set.
C7_Witness ==
    /\ credPc = "done"
    /\ "ENVIRONMENT" \in DOMAIN environ
    /\ environ["ENVIRONMENT"] = "Production"
    /\ "FAXAGE_USERNAME" \notin DOMAIN environ
    /\ "FAXAGE_PASSWORD" \in DOMAIN environ
    /\ credRet.kind = "value"
    /\ credRet.value[1] = ""
    /\ credRet.value[3] = "pw"

ClaimedNames == <<"faxage-username", "faxage-company", "faxage-password">>

ValueOrNone ==
    IF "GOOGLE_CLOUD_PROJECT" \in DOMAIN environ
    THEN environ["GOOGLE_CLOUD_PROJECT"] ELSE "None"

ClaimedResource(name) ==
    <<"projects/", ValueOrNone, "/secrets/", name, "/versions/latest">>

FailingSecrets == {k \in 1..3 : store[ClaimedNames[k]] \in StoreErrors}

\* C8: on the secret-store path with a client constructed, three calls are made
\* when all succeed, for the user name, the company and the password in that
\* order; when one fails its error reaches the caller, no triple is returned
\* and no later secret is requested.
C8_ThreeCallsInOrderOrError ==
    (credPc = "done" /\ SecretStoreSelected
        /\ credRet.error # "DefaultCredentialsError")
    => IF FailingSecrets = {}
       THEN /\ secretCalls = [k \in 1..3 |-> ClaimedResource(ClaimedNames[k])]
            /\ credRet = Credentials([k \in 1..3 |-> store[ClaimedNames[k]]])
       ELSE LET first == CHOOSE k \in FailingSecrets :
                            \A j \in FailingSecrets : k <= j
            IN  /\ secretCalls =
                        [k \in 1..first |-> ClaimedResource(ClaimedNames[k])]
                /\ credRet = CredRaised(store[ClaimedNames[first]])

\* The call has raised the company's error: the user name and the company were
\* requested, and the password, which would have failed otherwise, was not.
C8_Witness ==
    /\ credPc = "done"
    /\ SecretStoreSelected
    /\ store["faxage-username"] = "s3cret"
    /\ store["faxage-company"] = "PermissionDenied"
    /\ store["faxage-password"] = "NotFound"
    /\ Len(secretCalls) = 2
    /\ credRet = CredRaised("PermissionDenied")

====
